---- MODULE Spec2Model ----
(***************************************************************************)
(* A model of the osm-tile server: the feature classifier, the tile        *)
(* locator, the ring reconstructor, the per-zoom tile index, the tile      *)
(* cache behind its mutex and the tile renderer.                           *)
(*                                                                         *)
(* Conventions.  An Option<T> of the source is a sequence of length at     *)
(* most one: <<>> is None and <<v>> is Some(v).  A HashMap is a function   *)
(* whose DOMAIN is the set of keys present.  A HashSet that the source      *)
(* iterates is a set from which the model picks any element: the order of  *)
(* iteration of a std HashSet is not fixed by the program.                 *)
(***************************************************************************)
EXTENDS Integers, Sequences, FiniteSets, TLC

VARIABLES
    osm_node,        \* nodes_to_tile: node id -> <<x, y>> on the unit plane
    osm_way,         \* id_to_ways: way id -> [id, nd, tag]
    osm_relation,    \* id_to_relations: relation id -> [id, member, tag]
    ring_rel,        \* extract_loops_to_render: the relation given
    loops,           \* extract_loops_to_render: loops
    ways_to_visit,   \* extract_loops_to_render: ways_to_visit
    ring_pc,         \* extract_loops_to_render: where the call is
    relation_to_type,\* main: relation id -> Type, Some once computed
    way_to_type,     \* main: way id -> Type, Some once computed
    loc_in,          \* convert_to_int_tile: the pixel coordinate given
    loc_out,         \* convert_to_int_tile: the tiles returned so far
    idx_zoom,        \* build_index_for_zoom: zoom
    idx_out,         \* build_index_for_zoom: the Index returned, Some once built
    idx_pc,          \* build_index_for_zoom: where the call is
    tile_cache,      \* TileCache.cache: zoom key -> Index
    mutex,           \* the Mutex around the TileCache: the task holding it, or 0
    req,             \* render_tile_cache: each task's Path (z, x, y)
    req_pc,          \* render_tile_cache: where each task is
    rendered_image,  \* render_tile_cache: each task's rendered_image
    response,        \* render_tile_cache: what each task answered last
    files,           \* ./cached: path <<z, x, y>> -> the state of the file
    build_log,       \* the zooms logged by "build new cache for zoom"
    started,         \* the number of requests received so far
    filtered_relations, \* draw_to_memory: relations_for_type
    filtered_ways,   \* draw_to_memory: ways_for_type
    rnd_type,        \* draw_to_memory: the index of filter_type in render_order
    rnd_phase,       \* draw_to_memory: in the ways or in the relations of filter_type
    rnd_i,           \* draw_to_memory: the position in the Vec being drawn
    draws,           \* the draw calls made on the cairo Context, in order
    filter,          \* filter_relations: filter, key -> the accepted values
    flt_out,         \* filter_relations: the relations returned, Some once run
    loops_first      \* the loops an earlier call returned for the same relation

dataVars == <<osm_node, osm_way, osm_relation>>
ringVars == <<ring_rel, loops, ways_to_visit, ring_pc>>
typeVars == <<relation_to_type, way_to_type>>
locVars == <<loc_in, loc_out>>
idxVars == <<idx_zoom, idx_out, idx_pc>>
srvVars == <<tile_cache, mutex, req, req_pc, rendered_image, response, files,
             build_log, started>>
rndVars == <<filtered_relations, filtered_ways, rnd_type, rnd_phase, rnd_i, draws>>
fltVars == <<filter, flt_out>>
prevVars == <<loops_first>>
vars == <<dataVars, ringVars, typeVars, locVars, idxVars, srvVars, rndVars, fltVars,
          prevVars>>

(***************************************************************************)
(* Bounds of the inputs.                                                   *)
(***************************************************************************)
MaxWays == 3
MaxNode == 3
MaxWayLen == 2
MaxMembers == 3
MaxTags == 2
MaxPx == 600
MaxPyHalfTiles == 4
NumTasks == 2
MaxRequests == 3
MaxTileX == 1
IdxMaxWays == 2
IdxMaxNode == 2
IdxMaxUnitX == 2
IdxMaxUnitY == 1

TILE_SIZE == 256

WayIds == 1..MaxWays
NodeIds == 1..MaxNode

None == <<>>
Some(v) == <<v>>

Last(s) == s[Len(s)]
Reverse(s) == [i \in 1..Len(s) |-> s[Len(s) + 1 - i]]
Range(s) == {s[i] : i \in 1..Len(s)}

SeqsUpTo(S, n) == UNION {[1..k -> S] : k \in 0..n}

(***************************************************************************)
(* Feature classifier (utils.rs).                                          *)
(***************************************************************************)
Types == {"Park", "Forest", "Building", "Water", "WaterRiver", "Generic"}

check_tag_type_building_first(tag) ==
    IF \E i \in 1..Len(tag) : tag[i].k = "building" THEN "Building"
    ELSE IF \E i \in 1..Len(tag) : tag[i].k = "leisure" /\ tag[i].v = "park" THEN "Park"
    ELSE IF \E i \in 1..Len(tag) : tag[i].k = "landuse" /\ tag[i].v = "forest" THEN "Forest"
    ELSE IF \E i \in 1..Len(tag) : tag[i].k = "natural" /\ tag[i].v = "water" THEN "Water"
    ELSE IF \E i \in 1..Len(tag) : tag[i].k = "waterway" THEN "WaterRiver"
    ELSE "Generic"

check_tag_type(tag) ==
    IF \E i \in 1..Len(tag) : tag[i].k = "leisure" /\ tag[i].v = "park" THEN "Park"
    ELSE IF \E i \in 1..Len(tag) : tag[i].k = "landuse" /\ tag[i].v = "forest" THEN "Forest"
    ELSE IF \E i \in 1..Len(tag) : tag[i].k = "building" THEN "Building"
    ELSE IF \E i \in 1..Len(tag) : tag[i].k = "natural" /\ tag[i].v = "water" THEN "Water"
    ELSE IF \E i \in 1..Len(tag) : tag[i].k = "waterway" THEN "WaterRiver"
    ELSE "Generic"

check_relation_type(relation) ==
    IF relation.tag # None THEN check_tag_type(relation.tag[1]) ELSE "Generic"

check_way_type(way) ==
    IF way.tag # None THEN check_tag_type(way.tag[1]) ELSE "Generic"

\* main.rs, lines 525-531: relation_to_type
MainRelationToType ==
    /\ relation_to_type = None
    /\ relation_to_type' =
          Some([r \in DOMAIN osm_relation |-> check_relation_type(osm_relation[r])])
    /\ UNCHANGED <<way_to_type, dataVars, fltVars, prevVars,
                   ringVars, locVars, idxVars, srvVars, rndVars>>

\* main.rs, lines 532-538: way_to_type
MainWayToType ==
    /\ relation_to_type # None
    /\ way_to_type = None
    /\ way_to_type' = Some([w \in DOMAIN osm_way |-> check_way_type(osm_way[w])])
    /\ UNCHANGED <<relation_to_type, dataVars, fltVars, prevVars,
                   ringVars, locVars, idxVars, srvVars, rndVars>>

(***************************************************************************)
(* Tag filter (utils.rs, filter_relations).                                *)
(***************************************************************************)
\* lines 33-43: the closure that keeps a relation
KeepsRelation(relation, flt) ==
    /\ relation.tag # None
    /\ Cardinality({i \in 1..Len(relation.tag[1]) :
                       /\ relation.tag[1][i].k \in DOMAIN flt
                       /\ relation.tag[1][i].v \in flt[relation.tag[1][i].k]})
          = Cardinality(DOMAIN flt)

\* lines 29-45: the relations kept, in the order of osm.relation
filter_relations(flt) ==
    SelectSeq([r \in 1..Cardinality(DOMAIN osm_relation) |-> r],
              LAMBDA r : KeepsRelation(osm_relation[r], flt))

\* filter_relations is called and returns
FilterRelations ==
    /\ flt_out = None
    /\ flt_out' = Some(filter_relations(filter))
    /\ UNCHANGED <<filter, prevVars, dataVars, ringVars, typeVars, locVars, idxVars,
                   srvVars, rndVars>>

(***************************************************************************)
(* Tile locator (utils.rs).  A pixel coordinate is an integer here; the    *)
(* cast `as i32` of the quotient drops its fraction, toward zero.          *)
(***************************************************************************)
\* (a / b) as i32, for b > 0
TruncDiv(a, b) == IF a >= 0 THEN a \div b ELSE -((-a) \div b)

convert_to_int_tile_swapped(lat, lon) ==
    <<TruncDiv(lon, TILE_SIZE), TruncDiv(lat, TILE_SIZE)>>

convert_to_int_tile(lat, lon) ==
    <<TruncDiv(lat, TILE_SIZE), TruncDiv(lon, TILE_SIZE)>>

\* the tile of the pixel coordinate given
Locate ==
    /\ loc_in # None
    /\ Len(loc_out) = 0
    /\ loc_out' = <<convert_to_int_tile(loc_in[1][1], loc_in[1][2])>>
    /\ UNCHANGED <<loc_in, dataVars, fltVars, prevVars,
                   ringVars, typeVars, idxVars, srvVars, rndVars>>

\* the tile of the pixel coordinate one tile edge further along x
LocateOneTileOn ==
    /\ loc_in # None
    /\ Len(loc_out) = 1
    /\ loc_out' = Append(loc_out,
                         convert_to_int_tile(loc_in[1][1] + TILE_SIZE, loc_in[1][2]))
    /\ UNCHANGED <<loc_in, dataVars, fltVars, prevVars,
                   ringVars, typeVars, idxVars, srvVars, rndVars>>

(***************************************************************************)
(* Ring reconstructor (utils.rs, extract_loops_to_render).                 *)
(***************************************************************************)
\* LoopWithType::new_with_type
new_with_type(way_id, memeber_type) ==
    [member_type |-> memeber_type, memeber_loop |-> <<>>, way_id |-> Some(way_id)]

\* ways: the members whose member_ref is a key of id_to_ways, in member order
ResolvedWays(relation) ==
    LET refs == [i \in 1..Len(relation.member) |-> relation.member[i].member_ref]
    IN  SelectSeq(refs, LAMBDA r : r \in DOMAIN osm_way)

\* segments: endpoint node -> the ways that start or end there
Segments(ways) ==
    [n \in UNION {{osm_way[w].nd[1], Last(osm_way[w].nd)} : w \in ways} |->
        {w \in ways : osm_way[w].nd[1] = n \/ Last(osm_way[w].nd) = n}]

\* a new loop holding way a in its stored direction, pushed on loops
PushLoop_into_last(ls, a) ==
    IF ls = <<>>
    THEN <<[new_with_type(a.id, check_way_type(a)) EXCEPT !.memeber_loop = a.nd]>>
    ELSE [ls EXCEPT ![Len(ls)].memeber_loop = @ \o a.nd]

PushLoop(ls, a) ==
    Append(ls, [new_with_type(a.id, check_way_type(a)) EXCEPT !.memeber_loop = a.nd])

\* the nodes of b in the direction that continues a loop ending on node last
Oriented_forward_only(last, b) == b.nd

Oriented(last, b) == IF last = b.nd[1] THEN b.nd ELSE Reverse(b.nd)

\* the last loop extended with way b
ExtendLast(ls, b) ==
    [ls EXCEPT ![Len(ls)].memeber_loop =
        @ \o Oriented(Last(ls[Len(ls)].memeber_loop), b)]

\* the unconsumed ways that touch the last node of the last loop
NextCandidates_consumed_too(ls, to_visit, ways) ==
    Segments(ways)[Last(ls[Len(ls)].memeber_loop)]

NextCandidates(ls, to_visit, ways) ==
    {w \in Segments(ways)[Last(ls[Len(ls)].memeber_loop)] : w \in to_visit}

\* a way has no node (first().unwrap() on line 102) or no member resolves
\* (first().unwrap() on line 118)
ExtractPanics(relation) ==
    LET ways == ResolvedWays(relation)
    IN  ways = <<>> \/ \E i \in 1..Len(ways) : osm_way[ways[i]].nd = <<>>

\* lines 88-118: the call panics
ExtractPanic ==
    /\ ring_pc = "call"
    /\ ExtractPanics(osm_relation[ring_rel])
    /\ ring_pc' = "panic"
    /\ UNCHANGED <<loops, ways_to_visit, ring_rel, dataVars, fltVars, prevVars,
                   typeVars, locVars, idxVars, srvVars, rndVars>>

\* lines 88-126: the first loop is seeded with the first resolved member
ExtractStart ==
    /\ ring_pc = "call"
    /\ ~ExtractPanics(osm_relation[ring_rel])
    /\ LET ways == ResolvedWays(osm_relation[ring_rel])
       IN  /\ loops' = PushLoop(<<>>, osm_way[ways[1]])
           /\ ways_to_visit' = Range(ways) \ {ways[1]}
    /\ ring_pc' = "loop"
    /\ UNCHANGED <<ring_rel, dataVars, fltVars, prevVars,
                   typeVars, locVars, idxVars, srvVars, rndVars>>

\* lines 133-162 and 179: an unconsumed way touches the end of the last loop
ExtractAppend ==
    /\ ring_pc = "loop"
    /\ ways_to_visit # {}
    /\ \E next_way \in NextCandidates(loops, ways_to_visit,
                                      Range(ResolvedWays(osm_relation[ring_rel]))) :
          /\ loops' = ExtendLast(loops, osm_way[next_way])
          /\ ways_to_visit' = ways_to_visit \ {next_way}
    /\ UNCHANGED <<ring_pc, ring_rel, dataVars, fltVars, prevVars,
                   typeVars, locVars, idxVars, srvVars, rndVars>>

\* lines 163-179: none does, a new loop is seeded with any unconsumed way
ExtractNewLoop ==
    /\ ring_pc = "loop"
    /\ ways_to_visit # {}
    /\ NextCandidates(loops, ways_to_visit,
                      Range(ResolvedWays(osm_relation[ring_rel]))) = {}
    /\ \E pick_new_way \in ways_to_visit :
          /\ loops' = PushLoop(loops, osm_way[pick_new_way])
          /\ ways_to_visit' = ways_to_visit \ {pick_new_way}
    /\ UNCHANGED <<ring_pc, ring_rel, dataVars, fltVars, prevVars,
                   typeVars, locVars, idxVars, srvVars, rndVars>>

\* lines 128 and 188: the unconsumed set is empty, loops is returned
ExtractReturn ==
    /\ ring_pc = "loop"
    /\ ways_to_visit = {}
    /\ ring_pc' = "done"
    /\ UNCHANGED <<loops, ways_to_visit, ring_rel, dataVars, fltVars, prevVars,
                   typeVars, locVars, idxVars, srvVars, rndVars>>

ExtractNext ==
    \/ ExtractPanic
    \/ ExtractStart
    \/ ExtractAppend
    \/ ExtractNewLoop
    \/ ExtractReturn

\* the caller keeps what the call returned and calls again for the same
\* relation over the same way table (render_relation does for every tile the
\* relation is in, main.rs line 391)
ExtractAgain ==
    /\ ring_pc = "done"
    /\ loops_first = None
    /\ loops_first' = Some(loops)
    /\ loops' = <<>>
    /\ ways_to_visit' = {}
    /\ ring_pc' = "call"
    /\ UNCHANGED <<ring_rel, fltVars, dataVars, typeVars, locVars, idxVars, srvVars,
                   rndVars>>

(***************************************************************************)
(* Tile index builder (main.rs, build_index_for_zoom).  A coordinate on    *)
(* the unit plane is held as the integer k that stands for k / 2^16, so at *)
(* zoom z >= 8 the pixel coordinate k * 256 * 2^z / 2^16 is an integer.    *)
(***************************************************************************)
UnitDenominator == 2^16

dimension_in_pixels_for_zoom(zoom) == TILE_SIZE * 2^zoom

\* lines 61-72
node_to_tile_zoom_coordinates(zoom) ==
    [n \in DOMAIN osm_node |->
        <<(osm_node[n][1] * dimension_in_pixels_for_zoom(zoom)) \div UnitDenominator,
          (osm_node[n][2] * dimension_in_pixels_for_zoom(zoom)) \div UnitDenominator>>]

\* line 74
sorrund_tiles_window == <<1, 1, 0, 1, -1, -1, 0, -1, 1>>

\* slice::windows(2)
Windows2(s) == {<<s[i], s[i + 1]>> : i \in 1..(Len(s) - 1)}

\* lines 102-117 and 144-159: the tiles an id is inserted under for one node
NodeBuckets_from_zoom_15(node, zoom) ==
    LET tile == convert_to_int_tile(node_to_tile_zoom_coordinates(zoom)[node][1],
                                    node_to_tile_zoom_coordinates(zoom)[node][2])
    IN  {tile} \cup
        (IF zoom >= 15
         THEN {<<tile[1] + sliding_window[1], tile[2] + sliding_window[2]>> :
                  sliding_window \in Windows2(sorrund_tiles_window)}
         ELSE {})

NodeBuckets(node, zoom) ==
    LET tile == convert_to_int_tile(node_to_tile_zoom_coordinates(zoom)[node][1],
                                    node_to_tile_zoom_coordinates(zoom)[node][2])
    IN  {tile} \cup
        (IF zoom > 15
         THEN {<<tile[1] + sliding_window[1], tile[2] + sliding_window[2]>> :
                  sliding_window \in Windows2(sorrund_tiles_window)}
         ELSE {})

\* the buckets <<tile_x, tile_y, id>> that the nodes of way hold id in
WayBuckets_first_node(id, way, zoom) ==
    IF way.nd = <<>> THEN {}
    ELSE {<<tile[1], tile[2], id>> : tile \in NodeBuckets(way.nd[1], zoom)}

WayBuckets(id, way, zoom) ==
    UNION {{<<tile[1], tile[2], id>> : tile \in NodeBuckets(node, zoom)} :
              node \in Range(way.nd)}

\* lines 92-121
relations_to_tile(zoom) ==
    UNION {UNION {WayBuckets(r, osm_way[w], zoom) :
                     w \in Range(ResolvedWays(osm_relation[r]))} :
              r \in DOMAIN osm_relation}

\* lines 123-131
ways_from_relations ==
    UNION {{osm_relation[r].member[i].member_ref :
               i \in 1..Len(osm_relation[r].member)} : r \in DOMAIN osm_relation}

\* lines 133-138
ways_not_part_of_relation_unfiltered == DOMAIN osm_way

ways_not_part_of_relation == {w \in DOMAIN osm_way : w \notin ways_from_relations}

\* lines 140-163
ways_to_tile(zoom) ==
    UNION {WayBuckets(w, osm_way[w], zoom) : w \in ways_not_part_of_relation}

\* the ways whose nodes the two folds look up (lines 102 and 144)
WaysLookedUp ==
    ways_not_part_of_relation \cup
    UNION {Range(ResolvedWays(osm_relation[r])) : r \in DOMAIN osm_relation}

\* a node looked up has no coordinate: get(..).unwrap() panics
BuildLookupFails ==
    \E w \in WaysLookedUp : \E n \in Range(osm_way[w].nd) : n \notin DOMAIN osm_node

\* lines 165-173
build_index_for_zoom(zoom) ==
    [relations_to_tile |-> relations_to_tile(zoom),
     ways_to_tile |-> ways_to_tile(zoom),
     node_to_tile_zoom_coordinates |-> node_to_tile_zoom_coordinates(zoom)]

\* build_index_for_zoom returns the Index
BuildIndex ==
    /\ idx_pc = "call"
    /\ ~BuildLookupFails
    /\ idx_out' = Some(build_index_for_zoom(idx_zoom))
    /\ idx_pc' = "done"
    /\ UNCHANGED <<idx_zoom, dataVars, fltVars, prevVars,
                   ringVars, typeVars, locVars, srvVars, rndVars>>

\* build_index_for_zoom panics on a node without a coordinate
BuildIndexPanic ==
    /\ idx_pc = "call"
    /\ BuildLookupFails
    /\ idx_pc' = "panic"
    /\ UNCHANGED <<idx_zoom, idx_out, dataVars, fltVars, prevVars,
                   ringVars, typeVars, locVars, srvVars, rndVars>>

(***************************************************************************)
(* Tile cache and request handler (main.rs, TileCache and                  *)
(* render_tile_cache).  Each request runs as a task of the multi-threaded  *)
(* runtime; a task that panics is dropped with what it holds, the mutex    *)
(* guard included, and the server goes on.                                 *)
(***************************************************************************)
Tasks == 1..NumTasks

\* z as u8 (line 278)
ZoomKey(z) == z % 256

MapPut(f, k, v) == [x \in DOMAIN f \cup {k} |-> IF x = k THEN v ELSE f[x]]

\* render_tile_inner, lines 181-219: the ids in the buckets of tile (x, y)
TileRelations(index, x, y) ==
    {b[3] : b \in {c \in index.relations_to_tile : c[1] = x /\ c[2] = y}}

TileWays(index, x, y) ==
    {b[3] : b \in {c \in index.ways_to_tile : c[1] = x /\ c[2] = y}}

\* draw_to_memory ends in a panic: extract_loops_to_render panics for a
\* relation of the tile
RenderPanics(index, x, y) ==
    \E r \in TileRelations(index, x, y) : ExtractPanics(osm_relation[r])

\* the PNG of tile (z, x, y), as the features drawn into it
TileImage(index, z, x, y) ==
    [z |-> z, x |-> x, y |-> y,
     relations |-> TileRelations(index, x, y), ways |-> TileWays(index, x, y)]

Goto(p, to) == req_pc' = [req_pc EXCEPT ![p] = to]

\* a request GET /map/:z/:x/:y arrives
Receive(p, z, x, y) ==
    /\ req_pc[p] = "idle"
    /\ started < MaxRequests
    /\ started' = started + 1
    /\ req' = [req EXCEPT ![p] = <<z, x, y>>]
    /\ rendered_image' = [rendered_image EXCEPT ![p] = None]
    /\ response' = [response EXCEPT ![p] = None]
    /\ Goto(p, "is_file")
    /\ UNCHANGED <<tile_cache, mutex, files, build_log>>
    /\ UNCHANGED <<dataVars, fltVars, prevVars,
                   ringVars, typeVars, locVars, idxVars, rndVars>>

\* line 276: cached.is_file()
IsFile(p) ==
    /\ req_pc[p] = "is_file"
    /\ Goto(p, IF req[p] \in DOMAIN files THEN "read" ELSE "lock")
    /\ UNCHANGED <<tile_cache, mutex, req, rendered_image, response, files,
                   build_log, started>>
    /\ UNCHANGED <<dataVars, fltVars, prevVars,
                   ringVars, typeVars, locVars, idxVars, rndVars>>

\* line 291: the bytes that are in the file now are the response
ReadFile(p) ==
    /\ req_pc[p] = "read"
    /\ response' = [response EXCEPT ![p] =
                       Some([kind |-> "png",
                             complete |-> files[req[p]].complete,
                             image |-> files[req[p]].image])]
    /\ Goto(p, "idle")
    /\ UNCHANGED <<tile_cache, mutex, req, rendered_image, files, build_log, started>>
    /\ UNCHANGED <<dataVars, fltVars, prevVars,
                   ringVars, typeVars, locVars, idxVars, rndVars>>

\* line 277: tile_cache.lock().await
Lock(p) ==
    /\ req_pc[p] = "lock"
    /\ mutex = 0
    /\ mutex' = p
    /\ Goto(p, "get_cache")
    /\ UNCHANGED <<tile_cache, req, rendered_image, response, files, build_log, started>>
    /\ UNCHANGED <<dataVars, fltVars, prevVars,
                   ringVars, typeVars, locVars, idxVars, rndVars>>

\* lines 255-266: the entry of the zoom is occupied
GetCacheHit(p) ==
    /\ req_pc[p] = "get_cache"
    /\ ZoomKey(req[p][1]) \in DOMAIN tile_cache
    /\ Goto(p, "render")
    /\ UNCHANGED <<tile_cache, mutex, req, rendered_image, response, files,
                   build_log, started>>
    /\ UNCHANGED <<dataVars, fltVars, prevVars,
                   ringVars, typeVars, locVars, idxVars, rndVars>>

\* lines 256-257 and 57: the entry is vacant, build_index_for_zoom is called
GetCacheBuild(p) ==
    /\ req_pc[p] = "get_cache"
    /\ ZoomKey(req[p][1]) \notin DOMAIN tile_cache
    /\ build_log' = Append(build_log, ZoomKey(req[p][1]))
    /\ Goto(p, "build")
    /\ UNCHANGED <<tile_cache, mutex, req, rendered_image, response, files, started>>
    /\ UNCHANGED <<dataVars, fltVars, prevVars,
                   ringVars, typeVars, locVars, idxVars, rndVars>>

\* lines 256-265: the Index built is inserted under the zoom
BuildDone(p) ==
    /\ req_pc[p] = "build"
    /\ ~BuildLookupFails
    /\ tile_cache' = MapPut(tile_cache, ZoomKey(req[p][1]),
                            build_index_for_zoom(ZoomKey(req[p][1])))
    /\ Goto(p, "render")
    /\ UNCHANGED <<mutex, req, rendered_image, response, files, build_log, started>>
    /\ UNCHANGED <<dataVars, fltVars, prevVars,
                   ringVars, typeVars, locVars, idxVars, rndVars>>

\* lines 102 and 144: the build panics; nothing is inserted, the guard is
\* dropped, the request gets no response
BuildPanicked(p) ==
    /\ req_pc[p] = "build"
    /\ BuildLookupFails
    /\ mutex' = 0
    /\ response' = [response EXCEPT ![p] =
                       Some([kind |-> "panic", complete |-> FALSE, image |-> None])]
    /\ Goto(p, "idle")
    /\ UNCHANGED <<tile_cache, req, rendered_image, files, build_log, started>>
    /\ UNCHANGED <<dataVars, fltVars, prevVars,
                   ringVars, typeVars, locVars, idxVars, rndVars>>

\* line 280: render_tile_inner
Render(p) ==
    /\ req_pc[p] = "render"
    /\ LET index == tile_cache[ZoomKey(req[p][1])]
       IN  /\ ~RenderPanics(index, req[p][2], req[p][3])
           /\ rendered_image' = [rendered_image EXCEPT ![p] =
                 Some(TileImage(index, req[p][1], req[p][2], req[p][3]))]
    /\ Goto(p, "write")
    /\ UNCHANGED <<tile_cache, mutex, req, response, files, build_log, started>>
    /\ UNCHANGED <<dataVars, fltVars, prevVars,
                   ringVars, typeVars, locVars, idxVars, rndVars>>

\* line 280: render_tile_inner panics in extract_loops_to_render
RenderPanicked(p) ==
    /\ req_pc[p] = "render"
    /\ RenderPanics(tile_cache[ZoomKey(req[p][1])], req[p][2], req[p][3])
    /\ mutex' = 0
    /\ response' = [response EXCEPT ![p] =
                       Some([kind |-> "panic", complete |-> FALSE, image |-> None])]
    /\ Goto(p, "idle")
    /\ UNCHANGED <<tile_cache, req, rendered_image, files, build_log, started>>
    /\ UNCHANGED <<dataVars, fltVars, prevVars,
                   ringVars, typeVars, locVars, idxVars, rndVars>>

\* lines 282-286: tokio::fs::write creates the file (or empties it) ...
WriteCreate(p) ==
    /\ req_pc[p] = "write"
    /\ files' = MapPut(files, req[p], [complete |-> FALSE, image |-> None])
    /\ Goto(p, "writing")
    /\ UNCHANGED <<tile_cache, mutex, req, rendered_image, response, build_log, started>>
    /\ UNCHANGED <<dataVars, fltVars, prevVars,
                   ringVars, typeVars, locVars, idxVars, rndVars>>

\* ... and then writes the bytes
WriteDone(p) ==
    /\ req_pc[p] = "writing"
    /\ files' = MapPut(files, req[p], [complete |-> TRUE, image |-> rendered_image[p]])
    /\ Goto(p, "respond")
    /\ UNCHANGED <<tile_cache, mutex, req, rendered_image, response, build_log, started>>
    /\ UNCHANGED <<dataVars, fltVars, prevVars,
                   ringVars, typeVars, locVars, idxVars, rndVars>>

\* lines 289-299: the guard is dropped at the end of the block, the image is
\* the response
Respond(p) ==
    /\ req_pc[p] = "respond"
    /\ mutex' = 0
    /\ response' = [response EXCEPT ![p] =
                       Some([kind |-> "png", complete |-> TRUE,
                             image |-> rendered_image[p]])]
    /\ Goto(p, "idle")
    /\ UNCHANGED <<tile_cache, req, rendered_image, files, build_log, started>>
    /\ UNCHANGED <<dataVars, fltVars, prevVars,
                   ringVars, typeVars, locVars, idxVars, rndVars>>

(***************************************************************************)
(* Tile renderer (main.rs, render_tile_inner, draw_to_memory, render_way   *)
(* and render_relation).  The cairo Context is the list of paths drawn on  *)
(* it; the text of a house number is not part of it.                       *)
(***************************************************************************)
\* lines 324-331
render_order_building_first ==
    <<"Building", "Forest", "Park", "WaterRiver", "Water", "Generic">>

render_order == <<"Forest", "Park", "WaterRiver", "Water", "Generic", "Building">>

\* the orders in which a HashSet can be folded into a Vec
Orders(S) == {v \in [1..Cardinality(S) -> S] : Range(v) = S}

\* lines 183-193 and 203-213: ids grouped by type, in the order of the fold
GroupedByType(ids, type_of) ==
    {[t \in Types |-> SelectSeq(order, LAMBDA id : type_of[id] = t)] :
        order \in Orders(ids)}

\* render_tile_inner, lines 181-219, for tile (x, y) of the Index built
RenderTileInner(x, y) ==
    /\ rnd_phase = "call"
    /\ idx_pc = "done"
    /\ filtered_relations' \in
          GroupedByType(TileRelations(idx_out[1], x, y), relation_to_type[1])
    /\ filtered_ways' \in GroupedByType(TileWays(idx_out[1], x, y), way_to_type[1])
    /\ rnd_type' = 1
    /\ rnd_phase' = "ways"
    /\ rnd_i' = 1
    /\ UNCHANGED <<draws, dataVars, fltVars, prevVars,
                   ringVars, typeVars, locVars, idxVars, srvVars>>

\* render_way, lines 461-475: the path is filled
WayFilled(way_type) == way_type \in {"Forest", "Park", "Building", "Water"}

\* render_relation, lines 411-432: the path of a loop is filled
RingFilled_by_relation_type(way_type, relation_type) ==
    relation_type \in {"Forest", "Park", "Building", "Water"}

RingFilled(way_type, relation_type) ==
    \/ way_type \in {"Forest", "Park", "Building", "Water"}
    \/ relation_type \in {"Forest", "Park", "Water"}

\* lines 334-348: render_way for the next way of filter_type
RenderWay ==
    /\ rnd_phase = "ways"
    /\ rnd_type <= Len(render_order)
    /\ rnd_i <= Len(filtered_ways[render_order[rnd_type]])
    /\ draws' = Append(draws,
          [kind |-> "way",
           id |-> filtered_ways[render_order[rnd_type]][rnd_i],
           filter_type |-> render_order[rnd_type],
           way_id |-> Some(filtered_ways[render_order[rnd_type]][rnd_i]),
           fill |-> WayFilled(render_order[rnd_type])])
    /\ rnd_i' = rnd_i + 1
    /\ UNCHANGED <<filtered_relations, filtered_ways, rnd_type, rnd_phase>>
    /\ UNCHANGED <<dataVars, fltVars, prevVars,
                   ringVars, typeVars, locVars, idxVars, srvVars>>

\* lines 348-350: the ways of filter_type are drawn, its relations follow
WaysDone ==
    /\ rnd_phase = "ways"
    /\ rnd_type <= Len(render_order)
    /\ rnd_i > Len(filtered_ways[render_order[rnd_type]])
    /\ rnd_phase' = "relations"
    /\ rnd_i' = 1
    /\ UNCHANGED <<filtered_relations, filtered_ways, rnd_type, draws>>
    /\ UNCHANGED <<dataVars, fltVars, prevVars,
                   ringVars, typeVars, locVars, idxVars, srvVars>>

\* lines 350-364 and 389-391: render_relation calls extract_loops_to_render
RenderRelationCall ==
    /\ rnd_phase = "relations"
    /\ rnd_i <= Len(filtered_relations[render_order[rnd_type]])
    /\ ring_rel' = filtered_relations[render_order[rnd_type]][rnd_i]
    /\ loops' = <<>>
    /\ ways_to_visit' = {}
    /\ ring_pc' = "call"
    /\ rnd_phase' = "render_relation"
    /\ UNCHANGED <<filtered_relations, filtered_ways, rnd_type, rnd_i, draws>>
    /\ UNCHANGED <<dataVars, fltVars, prevVars, typeVars, locVars, idxVars, srvVars>>

\* lines 392-435: every loop returned is drawn
RenderRelationLoops ==
    /\ rnd_phase = "render_relation"
    /\ ring_pc = "done"
    /\ draws' = draws \o
          [i \in 1..Len(loops) |->
              [kind |-> "ring",
               id |-> ring_rel,
               filter_type |-> render_order[rnd_type],
               way_id |-> loops[i].way_id,
               fill |-> RingFilled(loops[i].member_type, render_order[rnd_type])]]
    /\ ring_pc' = "idle"
    /\ rnd_phase' = "relations"
    /\ rnd_i' = rnd_i + 1
    /\ UNCHANGED <<ring_rel, loops, ways_to_visit>>
    /\ UNCHANGED <<filtered_relations, filtered_ways, rnd_type>>
    /\ UNCHANGED <<dataVars, fltVars, prevVars, typeVars, locVars, idxVars, srvVars>>

\* line 391: extract_loops_to_render panicked, and draw_to_memory with it
RenderRelationPanic ==
    /\ rnd_phase = "render_relation"
    /\ ring_pc = "panic"
    /\ rnd_phase' = "panic"
    /\ UNCHANGED <<filtered_relations, filtered_ways, rnd_type, rnd_i, draws>>
    /\ UNCHANGED <<dataVars, fltVars, prevVars,
                   ringVars, typeVars, locVars, idxVars, srvVars>>

\* lines 333 and 366: the relations of filter_type are drawn, the next
\* filter_type follows
RelationsDone ==
    /\ rnd_phase = "relations"
    /\ rnd_i > Len(filtered_relations[render_order[rnd_type]])
    /\ rnd_type' = rnd_type + 1
    /\ rnd_phase' = "ways"
    /\ rnd_i' = 1
    /\ UNCHANGED <<filtered_relations, filtered_ways, draws>>
    /\ UNCHANGED <<dataVars, fltVars, prevVars,
                   ringVars, typeVars, locVars, idxVars, srvVars>>

\* lines 368-376: the border is drawn and the PNG returned
DrawEnd ==
    /\ rnd_phase = "ways"
    /\ rnd_type > Len(render_order)
    /\ rnd_phase' = "done"
    /\ UNCHANGED <<filtered_relations, filtered_ways, rnd_type, rnd_i, draws>>
    /\ UNCHANGED <<dataVars, fltVars, prevVars,
                   ringVars, typeVars, locVars, idxVars, srvVars>>

(***************************************************************************)
(* The ring reconstructor on its own: one relation over every small way     *)
(* table.                                                                  *)
(***************************************************************************)
MemberKinds == {"way", "node"}
Members == [member_type : MemberKinds, member_ref : WayIds]
WayNds == SeqsUpTo(NodeIds, MaxWayLen)

MkWay(id, nd) == [id |-> id, nd |-> nd, tag |-> None]

RingIdle == ring_rel = 0 /\ loops = <<>> /\ ways_to_visit = {} /\ ring_pc = "idle"
TypesIdle == relation_to_type = None /\ way_to_type = None
LocIdle == loc_in = None /\ loc_out = <<>>
IdxIdle == idx_zoom = 0 /\ idx_out = None /\ idx_pc = "idle"
SrvIdle ==
    /\ tile_cache = <<>> /\ mutex = 0 /\ req = <<>> /\ req_pc = <<>>
    /\ rendered_image = <<>> /\ response = <<>> /\ files = <<>>
    /\ build_log = <<>> /\ started = 0
RndIdle ==
    /\ filtered_relations = <<>> /\ filtered_ways = <<>>
    /\ rnd_type = 0 /\ rnd_phase = "idle" /\ rnd_i = 0 /\ draws = <<>>
FltIdle == filter = <<>> /\ flt_out = None
PrevIdle == loops_first = None

InitRing ==
    /\ TypesIdle /\ LocIdle /\ IdxIdle /\ SrvIdle /\ RndIdle /\ FltIdle /\ PrevIdle
    /\ osm_node = <<>>
    /\ \E present \in SUBSET WayIds :
       \E nds \in [present -> WayNds] :
          osm_way = [w \in present |-> MkWay(w, nds[w])]
    /\ \E member \in SeqsUpTo(Members, MaxMembers) :
          osm_relation = [r \in {1} |-> [id |-> 1, member |-> member, tag |-> None]]
    \* a way that no member names is never read: it is left out of the table
    /\ DOMAIN osm_way \subseteq {osm_relation[1].member[i].member_ref :
                                    i \in 1..Len(osm_relation[1].member)}
    /\ ring_rel = 1
    /\ loops = <<>>
    /\ ways_to_visit = {}
    /\ ring_pc = "call"

SpecRing == InitRing /\ [][ExtractNext]_vars

(***************************************************************************)
(* Ring closure and ring multiplicity.                                     *)
(***************************************************************************)
\* the distinct ways the relation resolves to
RingWays == Range(ResolvedWays(osm_relation[ring_rel]))

Endpoints(W) == UNION {{osm_way[w].nd[1], Last(osm_way[w].nd)} : w \in W}

IsClosedWay(w) == osm_way[w].nd[1] = Last(osm_way[w].nd)

\* the ways of W hang together through shared endpoints
Connected(W) ==
    LET RECURSIVE Grow(_)
        Grow(S) ==
            LET T == S \cup {w \in W : \E s \in S :
                                Endpoints({s}) \cap Endpoints({w}) # {}}
            IN  IF T = S THEN S ELSE Grow(T)
    IN  Grow({CHOOSE w \in W : TRUE}) = W

\* W is the set of segments of one closed polygon: one closed way, or two or
\* more open ways, every endpoint node the endpoint of exactly two of them
IsPolygon(W) ==
    /\ W # {}
    /\ \A w \in W : osm_way[w].nd # <<>>
    /\ IF Cardinality(W) = 1
       THEN \A w \in W : IsClosedWay(w)
       ELSE /\ \A w \in W : ~IsClosedWay(w)
            /\ \A n \in Endpoints(W) :
                  Cardinality({w \in W : n \in Endpoints({w})}) = 2
            /\ Connected(W)

\* s is the node sequences of the ways of W, each once, forward or reversed,
\* one after the other, each starting on the node the one before ended on
RECURSIVE ChainFrom(_, _, _)
ChainFrom(s, W, last) ==
    IF W = {} THEN s = <<>>
    ELSE \E w \in W : \E o \in {osm_way[w].nd, Reverse(osm_way[w].nd)} :
            /\ Len(o) <= Len(s)
            /\ SubSeq(s, 1, Len(o)) = o
            /\ last # None => o[1] = last[1]
            /\ ChainFrom(SubSeq(s, Len(o) + 1, Len(s)), W \ {w}, Some(Last(o)))

IsChainOf(s, W) == ChainFrom(s, W, None)

IsClosedLoop(l) == l.memeber_loop # <<>> /\ l.memeber_loop[1] = Last(l.memeber_loop)

\* C1 (ring closure): when the ways a relation resolves to are the segments
\* of one closed polygon, in any member order and any stored direction, the
\* call returns exactly one ring; the ring is the segments' node sequences,
\* each once, forward or reversed, each starting where the ring ended, and
\* its first node is its last node.
C1_RingClosure ==
    (ring_pc = "done" /\ IsPolygon(RingWays)) =>
        /\ Len(loops) = 1
        /\ IsChainOf(loops[1].memeber_loop, RingWays)
        /\ IsClosedLoop(loops[1])

\* a triangle of three segments was returned as one ring, and a segment that
\* ends where the seed ends had to be appended reversed
C1_Witness ==
    /\ ring_pc = "done"
    /\ IsPolygon(RingWays)
    /\ Cardinality(RingWays) = 3
    /\ Len(loops) = 1
    /\ \E w \in RingWays \ {loops[1].way_id[1]} :
          Last(osm_way[w].nd) = Last(osm_way[loops[1].way_id[1]].nd)

\* W splits into two closed polygons that share no endpoint node
PolygonSplits(W) ==
    {G \in SUBSET W :
        /\ G # {} /\ G # W
        /\ IsPolygon(G) /\ IsPolygon(W \ G)
        /\ Endpoints(G) \cap Endpoints(W \ G) = {}}

\* C2 (ring multiplicity): when the ways a relation resolves to are two
\* closed polygons with no endpoint node in common, the call returns exactly
\* two rings, each ring is the chain of the ways of one polygon only, and
\* each ring's first node is its last node.
C2_RingMultiplicity ==
    (ring_pc = "done" /\ (\A w \in RingWays : osm_way[w].nd # <<>>)
        /\ PolygonSplits(RingWays) # {}) =>
        /\ Len(loops) = 2
        /\ \E G \in PolygonSplits(RingWays) :
              /\ IsChainOf(loops[1].memeber_loop, G)
              /\ IsChainOf(loops[2].memeber_loop, RingWays \ G)
        /\ IsClosedLoop(loops[1])
        /\ IsClosedLoop(loops[2])

\* two rings were returned for a polygon of two segments and a closed way
C2_Witness ==
    /\ ring_pc = "done"
    /\ Cardinality(RingWays) = 3
    /\ PolygonSplits(RingWays) # {}
    /\ Len(loops) = 2

(***************************************************************************)
(* The classifier on its own: one way or one relation with every small tag *)
(* list, classified as main does at start.                                 *)
(***************************************************************************)
TagKeys == {"leisure", "landuse", "building", "natural", "waterway", "name"}
TagValues == {"park", "forest", "water", "yes"}
Tags == [k : TagKeys, v : TagValues]
TagLists == {None} \cup {Some(t) : t \in SeqsUpTo(Tags, MaxTags)}

InitClassify ==
    /\ RingIdle /\ TypesIdle /\ LocIdle /\ IdxIdle /\ SrvIdle /\ RndIdle /\ FltIdle /\ PrevIdle
    /\ osm_node = <<>>
    /\ \E tag \in TagLists :
          \/ /\ osm_way = [w \in {1} |-> [id |-> 1, nd |-> <<>>, tag |-> tag]]
             /\ osm_relation = <<>>
          \/ /\ osm_way = <<>>
             /\ osm_relation = [r \in {1} |-> [id |-> 1, member |-> <<>>, tag |-> tag]]

SpecClassify == InitClassify /\ [][MainRelationToType \/ MainWayToType]_vars

\* the condition a tag has to meet for a category
Meets(type, t) ==
    CASE type = "Park" -> t.k = "leisure" /\ t.v = "park"
      [] type = "Forest" -> t.k = "landuse" /\ t.v = "forest"
      [] type = "Building" -> t.k = "building"
      [] type = "Water" -> t.k = "natural" /\ t.v = "water"
      [] type = "WaterRiver" -> t.k = "waterway"

PriorityOrder == <<"Park", "Forest", "Building", "Water", "WaterRiver">>

\* the first category of PriorityOrder that some tag meets, else Generic
FirstMet(tag) ==
    LET met == IF tag = None THEN {}
               ELSE {i \in 1..Len(PriorityOrder) :
                        \E j \in 1..Len(tag[1]) : Meets(PriorityOrder[i], tag[1][j])}
    IN  IF met = {} THEN "Generic"
        ELSE PriorityOrder[CHOOSE i \in met : \A j \in met : i <= j]

\* C8 (classifier priority): check_way_type and check_relation_type return
\* the first category, in the order Park, Forest, Building, Water,
\* WaterRiver, whose condition some tag of the entity meets, and Generic
\* when there is no tag list or no tag meets a condition.
C8_ClassifierPriority ==
    /\ way_to_type # None =>
          \A w \in DOMAIN osm_way : way_to_type[1][w] = FirstMet(osm_way[w].tag)
    /\ relation_to_type # None =>
          \A r \in DOMAIN osm_relation :
              relation_to_type[1][r] = FirstMet(osm_relation[r].tag)

\* a way tagged building=yes and then leisure=park was classified
C8_Witness ==
    /\ way_to_type # None
    /\ \E w \in DOMAIN osm_way :
          /\ osm_way[w].tag = Some(<<[k |-> "building", v |-> "yes"],
                                     [k |-> "leisure", v |-> "park"]>>)
          /\ way_to_type[1][w] = "Park"

(***************************************************************************)
(* The tile locator on its own, over a span of pixel coordinates on both   *)
(* sides of zero.                                                          *)
(***************************************************************************)
InitLocate ==
    /\ RingIdle /\ TypesIdle /\ IdxIdle /\ SrvIdle /\ RndIdle /\ FltIdle /\ PrevIdle
    /\ osm_node = <<>> /\ osm_way = <<>> /\ osm_relation = <<>>
    /\ \E px \in -MaxPx..MaxPx : \E h \in -MaxPyHalfTiles..MaxPyHalfTiles :
          loc_in = Some(<<px, h * (TILE_SIZE \div 2)>>)
    /\ loc_out = <<>>

SpecLocate == InitLocate /\ [][Locate \/ LocateOneTileOn]_vars

\* the claim as stated: one tile edge further along x is always the next tile_x
C7_Original ==
    Len(loc_out) = 2 => loc_out[2][1] = loc_out[1][1] + 1

\* C7 (tile locator monotonicity), amended: one tile edge further along x is
\* the next tile_x for every px >= 0 and every px <= -256; for -256 < px < 0
\* both px and px + 256 are in tile_x 0, as the quotient is cut toward zero.
\* tile_y is the same in all cases.
C7_Monotone ==
    Len(loc_out) = 2 =>
        /\ (loc_in[1][1] >= 0 \/ loc_in[1][1] <= -TILE_SIZE) =>
              loc_out[2][1] = loc_out[1][1] + 1
        /\ (-TILE_SIZE < loc_in[1][1] /\ loc_in[1][1] < 0) =>
              loc_out[1][1] = 0 /\ loc_out[2][1] = 0
        /\ loc_out[2][2] = loc_out[1][2]

\* both tiles were computed for a px more than one tile below zero
C7_Witness ==
    /\ Len(loc_out) = 2
    /\ loc_in[1][1] < -TILE_SIZE
    /\ loc_out[1][1] = -2 /\ loc_out[2][1] = -1

(***************************************************************************)
(* The index builder on its own: every small dataset, at the zooms on both *)
(* sides of the threshold.                                                 *)
(***************************************************************************)
IdxWayIds == 1..IdxMaxWays
IdxNodeIds == 1..IdxMaxNode
IdxZooms == {15, 16}
IdxUnits == (-IdxMaxUnitX..IdxMaxUnitX) \X (0..IdxMaxUnitY)
IdxMembers == [member_type : MemberKinds, member_ref : IdxWayIds]

InitIndex ==
    /\ RingIdle /\ TypesIdle /\ LocIdle /\ SrvIdle /\ RndIdle /\ FltIdle /\ PrevIdle
    /\ \E present \in SUBSET IdxNodeIds : osm_node \in [present -> IdxUnits]
    /\ \E present \in SUBSET IdxWayIds :
       \E nds \in [present -> SeqsUpTo(IdxNodeIds, 2)] :
          osm_way = [w \in present |-> MkWay(w, nds[w])]
    /\ \/ osm_relation = <<>>
       \/ \E member \in SeqsUpTo(IdxMembers, 2) :
             osm_relation = [r \in {1} |-> [id |-> 1, member |-> member, tag |-> None]]
    /\ idx_zoom \in IdxZooms
    /\ idx_out = None
    /\ idx_pc = "call"

SpecIndex == InitIndex /\ [][BuildIndex \/ BuildIndexPanic]_vars

\* the tiles that hold id in a set of buckets
TilesHolding(buckets, id) == {<<b[1], b[2]>> : b \in {c \in buckets : c[3] = id}}

\* the tiles the nodes of the given ways locate to at the zoom of the index
TilesLocated(W) ==
    {convert_to_int_tile(idx_out[1].node_to_tile_zoom_coordinates[n][1],
                         idx_out[1].node_to_tile_zoom_coordinates[n][2]) :
        n \in UNION {Range(osm_way[w].nd) : w \in W}}

\* a way some relation member names
IsRelationOwned(w) ==
    \E r \in DOMAIN osm_relation :
        \E i \in 1..Len(osm_relation[r].member) : osm_relation[r].member[i].member_ref = w

\* the claim as stated: every way whose nodes have coordinates is in the
\* way-bucket of every tile its nodes locate to
C5_Original ==
    idx_pc = "done" =>
        \A w \in DOMAIN osm_way :
            Range(osm_way[w].nd) \subseteq DOMAIN osm_node =>
                TilesLocated({w}) \subseteq TilesHolding(idx_out[1].ways_to_tile, w)

\* C5 (index completeness), amended: in the index built for a zoom, every way
\* whose ID no relation member names and whose nodes all have coordinates is
\* in the way-bucket of every tile that any of its nodes locates to.
C5_IndexCompleteness ==
    idx_pc = "done" =>
        \A w \in DOMAIN osm_way :
            (~IsRelationOwned(w) /\ Range(osm_way[w].nd) \subseteq DOMAIN osm_node) =>
                TilesLocated({w}) \subseteq TilesHolding(idx_out[1].ways_to_tile, w)

\* an index was built that holds a way with nodes in two tiles in both
\* tiles' way-buckets
C5_Witness ==
    /\ idx_pc = "done"
    /\ \E w \in DOMAIN osm_way :
          /\ ~IsRelationOwned(w)
          /\ Cardinality(TilesLocated({w})) = 2
          /\ TilesLocated({w}) \subseteq TilesHolding(idx_out[1].ways_to_tile, w)

\* the 3x3 block of tiles centred on a tile
Block3(tile) == {<<tile[1] + dx, tile[2] + dy>> : dx \in -1..1, dy \in -1..1}

\* the tiles an id has to be held in, given the tiles its nodes locate to
TilesExpected(located) ==
    IF idx_zoom <= 15 THEN located ELSE UNION {Block3(tile) : tile \in located}

\* C6 (neighbor duplication threshold): for every id the build puts in a
\* bucket, at zoom <= 15 the tiles holding it are exactly the tiles its nodes
\* locate to, and at zoom > 15 exactly the union of the 3x3 blocks centred on
\* those tiles (the nodes of a relation are those of the ways it resolves).
C6_NeighborThreshold ==
    idx_pc = "done" =>
        /\ \A w \in {b[3] : b \in idx_out[1].ways_to_tile} :
              TilesHolding(idx_out[1].ways_to_tile, w) = TilesExpected(TilesLocated({w}))
        /\ \A r \in {b[3] : b \in idx_out[1].relations_to_tile} :
              TilesHolding(idx_out[1].relations_to_tile, r) =
                  TilesExpected(TilesLocated(Range(ResolvedWays(osm_relation[r]))))

\* an index built at zoom 16 holds a way of one node in 9 tiles and a
\* relation in 18
C6_Witness ==
    /\ idx_pc = "done"
    /\ idx_zoom = 16
    /\ \E w \in {b[3] : b \in idx_out[1].ways_to_tile} :
          Cardinality(TilesHolding(idx_out[1].ways_to_tile, w)) = 9
    /\ \E r \in {b[3] : b \in idx_out[1].relations_to_tile} :
          Cardinality(TilesHolding(idx_out[1].relations_to_tile, r)) = 18

(***************************************************************************)
(* The server: tasks that take requests over a loaded dataset.             *)
(***************************************************************************)
ReqZooms == {12, 13, 268}
ReqTiles == (0..MaxTileX) \X {0}

\* way 1 over nodes 1 and 2; node 2 may have no coordinate; there may be a
\* way 2 without nodes and a relation of ways 1 and 2
Init ==
    /\ RingIdle /\ TypesIdle /\ LocIdle /\ IdxIdle /\ RndIdle /\ FltIdle /\ PrevIdle
    /\ osm_node \in {[n \in {1, 2} |-> <<0, 0>>], [n \in {1} |-> <<0, 0>>]}
    /\ osm_way \in {[w \in {1} |-> MkWay(1, <<1, 2>>)],
                    [w \in {1, 2} |-> MkWay(w, IF w = 1 THEN <<1, 2>> ELSE <<>>)]}
    /\ osm_relation \in
          {<<>>,
           [r \in {1} |-> [id |-> 1, tag |-> None,
                           member |-> <<[member_type |-> "way", member_ref |-> 1],
                                        [member_type |-> "way", member_ref |-> 2]>>]]}
    /\ tile_cache = <<>>
    /\ mutex = 0
    /\ req = [p \in Tasks |-> <<0, 0, 0>>]
    /\ req_pc = [p \in Tasks |-> "idle"]
    /\ rendered_image = [p \in Tasks |-> None]
    /\ response = [p \in Tasks |-> None]
    /\ files = <<>>
    /\ build_log = <<>>
    /\ started = 0

Next ==
    \E p \in Tasks :
        \/ \E z \in ReqZooms : \E t \in ReqTiles : Receive(p, z, t[1], t[2])
        \/ IsFile(p)
        \/ ReadFile(p)
        \/ Lock(p)
        \/ GetCacheHit(p)
        \/ GetCacheBuild(p)
        \/ BuildDone(p)
        \/ BuildPanicked(p)
        \/ Render(p)
        \/ RenderPanicked(p)
        \/ WriteCreate(p)
        \/ WriteDone(p)
        \/ Respond(p)

Spec == Init /\ [][Next]_vars

\* the number of times build_index_for_zoom was called for a zoom key
Builds(key) == Cardinality({i \in 1..Len(build_log) : build_log[i] = key})

\* C3 (cache single-build): over any sequence and interleaving of requests
\* that reach the tile cache, build_index_for_zoom runs at most once per zoom
\* key, and no two tasks are building at the same time.
C3_SingleBuild ==
    /\ \A key \in 0..255 : Builds(key) <= 1
    /\ \A p, q \in Tasks : (req_pc[p] = "build" /\ req_pc[q] = "build") => p = q

\* what holds of the cache as it is: at most one task is in get_cache or
\* building at a time, and a zoom whose build returned is never built again
SingleBuildOfReturnedBuilds ==
    /\ \A p, q \in Tasks :
          (req_pc[p] \in {"get_cache", "build"} /\ req_pc[q] \in {"get_cache", "build"})
              => p = q
    /\ ~BuildLookupFails => \A key \in 0..255 : Builds(key) <= 1

\* a dataset on which neither the build of an index nor a render panics
NothingPanics ==
    /\ ~BuildLookupFails
    /\ \A r \in DOMAIN osm_relation : ~ExtractPanics(osm_relation[r])

\* C4 (a build does not block unrelated requests): while a task is building
\* the index of a zoom, a task whose request is for another zoom, one that is
\* in the cache, is not kept waiting for the mutex.  Stated of the datasets
\* on which nothing panics, where every request is served in full.
C4_CachedZoomNotBlocked ==
    \A p, q \in Tasks :
        (/\ NothingPanics
         /\ req_pc[p] = "build"
         /\ req_pc[q] = "lock"
         /\ ZoomKey(req[q][1]) \in DOMAIN tile_cache
         /\ ZoomKey(req[q][1]) # ZoomKey(req[p][1])) => mutex = 0

(***************************************************************************)
(* The renderer on its own, as the test of main.rs runs it: the index is   *)
(* built and one tile of it rendered.  Two ways and two relations of every *)
(* category, all nodes in tile (0, 0).                                     *)
(***************************************************************************)
\* one tag list for each category
TagChoices ==
    {None,
     Some(<<[k |-> "leisure", v |-> "park"]>>),
     Some(<<[k |-> "landuse", v |-> "forest"]>>),
     Some(<<[k |-> "building", v |-> "yes"]>>),
     Some(<<[k |-> "natural", v |-> "water"]>>),
     Some(<<[k |-> "waterway", v |-> "yes"]>>)}

RndMaxWays == 2
RndMaxRelations == 2
RndMaxNode == 3

RndWayIds == 1..RndMaxWays
RndRelationIds == 1..RndMaxRelations
RndWayMembers == [member_type : {"way"}, member_ref : RndWayIds]

InitRender ==
    /\ RingIdle /\ LocIdle /\ SrvIdle /\ FltIdle /\ PrevIdle
    /\ osm_node = [n \in 1..RndMaxNode |-> <<0, 0>>]
    /\ \E tags \in [RndWayIds -> TagChoices] :
       \E nd2 \in {<<2, 1>>, <<RndMaxNode, RndMaxNode>>, <<>>} :
          osm_way = [w \in RndWayIds |->
                        [id |-> w, nd |-> IF w = 1 THEN <<1, 2>> ELSE nd2, tag |-> tags[w]]]
    /\ \E tags \in [RndRelationIds -> TagChoices] :
       \E m1 \in SeqsUpTo(RndWayMembers, 2) : \E m2 \in SeqsUpTo(RndWayMembers, 1) :
          osm_relation = [r \in RndRelationIds |->
                             [id |-> r, member |-> IF r = 1 THEN m1 ELSE m2, tag |-> tags[r]]]
    /\ relation_to_type =
          Some([r \in DOMAIN osm_relation |-> check_relation_type(osm_relation[r])])
    /\ way_to_type = Some([w \in DOMAIN osm_way |-> check_way_type(osm_way[w])])
    /\ idx_zoom = 15 /\ idx_out = None /\ idx_pc = "call"
    /\ filtered_relations = <<>> /\ filtered_ways = <<>>
    /\ rnd_type = 0 /\ rnd_phase = "call" /\ rnd_i = 0 /\ draws = <<>>

NextRender ==
    \/ BuildIndex
    \/ RenderTileInner(0, 0)
    \/ RenderWay
    \/ WaysDone
    \/ RenderRelationCall
    \/ ExtractPanic
    \/ ExtractStart
    \/ ExtractAppend
    \/ ExtractNewLoop
    \/ ExtractReturn
    \/ RenderRelationLoops
    \/ RenderRelationPanic
    \/ RelationsDone
    \/ DrawEnd

SpecRender == InitRender /\ [][NextRender]_vars

\* the place of a category in the order of the claim
CategoryRank(type) ==
    CASE type = "Forest" -> 1 [] type = "Park" -> 2 [] type = "WaterRiver" -> 3
      [] type = "Water" -> 4 [] type = "Generic" -> 5 [] type = "Building" -> 6

\* the category a drawn feature was classified as
DrawnCategory(d) ==
    IF d.kind = "way" THEN FirstMet(osm_way[d.id].tag)
    ELSE FirstMet(osm_relation[d.id].tag)

\* C9 (render order): the draw calls of one tile render come category by
\* category in the order Forest, Park, WaterRiver, Water, Generic, Building,
\* each feature under its own category, and within a category every
\* standalone way before any relation; a render that returns has drawn every
\* way and every relation of the tile's buckets.
C9_RenderOrder ==
    /\ \A i \in 1..Len(draws) : draws[i].filter_type = DrawnCategory(draws[i])
    /\ \A i, j \in 1..Len(draws) :
          i < j =>
              /\ CategoryRank(draws[i].filter_type) <= CategoryRank(draws[j].filter_type)
              /\ (draws[i].filter_type = draws[j].filter_type /\ draws[i].kind = "ring")
                    => draws[j].kind = "ring"
    /\ rnd_phase = "done" =>
          /\ {draws[i].id : i \in {j \in 1..Len(draws) : draws[j].kind = "way"}}
                = TileWays(idx_out[1], 0, 0)
          /\ {draws[i].id : i \in {j \in 1..Len(draws) : draws[j].kind = "ring"}}
                = TileRelations(idx_out[1], 0, 0)

\* a render returned that drew a way and then a relation of its category
C9_Witness ==
    /\ rnd_phase = "done"
    /\ \E i, j \in 1..Len(draws) :
          /\ i < j
          /\ draws[i].kind = "way" /\ draws[j].kind = "ring"
          /\ draws[i].filter_type = draws[j].filter_type

FillCategories == {"Forest", "Park", "Building", "Water"}

\* the claim as stated: what is drawn under Forest, Park, Building or Water
\* is filled, what is drawn under WaterRiver or Generic is not
C10_Original ==
    \A i \in 1..Len(draws) : draws[i].fill <=> draws[i].filter_type \in FillCategories

\* C10 (fill policy), amended: a standalone way is filled exactly when it is
\* drawn under Forest, Park, Building or Water; a ring of a relation is
\* filled exactly when its seed way is Forest, Park, Building or Water, or
\* the relation is drawn under Forest, Park or Water.
C10_FillPolicy ==
    \A i \in 1..Len(draws) :
        IF draws[i].kind = "way"
        THEN draws[i].fill <=> draws[i].filter_type \in FillCategories
        ELSE draws[i].fill <=>
                \/ FirstMet(osm_way[draws[i].way_id[1]].tag) \in FillCategories
                \/ draws[i].filter_type \in {"Forest", "Park", "Water"}

\* a ring of a Building relation with a Generic seed way was drawn unfilled,
\* and a ring of a Generic relation with a Park seed way was drawn filled
C10_Witness ==
    /\ \E i \in 1..Len(draws) :
          /\ draws[i].kind = "ring" /\ draws[i].filter_type = "Building"
          /\ FirstMet(osm_way[draws[i].way_id[1]].tag) = "Generic"
          /\ ~draws[i].fill
    /\ \E i \in 1..Len(draws) :
          /\ draws[i].kind = "ring" /\ draws[i].filter_type = "Generic"
          /\ FirstMet(osm_way[draws[i].way_id[1]].tag) = "Park"
          /\ draws[i].fill

(***************************************************************************)
(* Lookups that fail.                                                      *)
(***************************************************************************)
\* C11 (missing node references are never fatal): over a dataset in which a
\* way references a node that has no coordinate, every tile request that is
\* answered is answered with a tile, never with a panic.  Stated of the
\* datasets on which the ring reconstruction does not panic.
C11_MissingNodeNeverFatal ==
    \A p \in Tasks :
        (/\ \A r \in DOMAIN osm_relation : ~ExtractPanics(osm_relation[r])
         /\ response[p] # None) => response[p][1].kind = "png"

\* C12 (empty relation): a call of extract_loops_to_render on a relation none
\* of whose members resolves to a way returns, and returns no ring.
C12_EmptyRelation ==
    (ring_pc \in {"done", "panic"} /\ ResolvedWays(osm_relation[ring_rel]) = <<>>) =>
        (ring_pc = "done" /\ loops = <<>>)

(***************************************************************************)
(* The tag filter on its own: one relation with every small tag list, under *)
(* every filter over two keys.                                             *)
(***************************************************************************)
FltKeys == {"leisure", "addr:city"}
FltValues == {"park", "Chisinau"}
FltTags == [k : FltKeys \cup {"name"}, v : FltValues \cup {"garden"}]
Filters == UNION {[keys -> SUBSET FltValues] : keys \in SUBSET FltKeys}

InitFilter ==
    /\ RingIdle /\ TypesIdle /\ LocIdle /\ IdxIdle /\ SrvIdle /\ RndIdle /\ PrevIdle
    /\ osm_node = <<>>
    /\ osm_way = <<>>
    /\ \E tag \in {None} \cup {Some(t) : t \in SeqsUpTo(FltTags, MaxTags)} :
          osm_relation = [r \in {1} |-> [id |-> 1, member |-> <<>>, tag |-> tag]]
    /\ filter \in Filters
    /\ flt_out = None

SpecFilter == InitFilter /\ [][FilterRelations]_vars

\* the tags of a relation, none when it has no tag list
TagsOf(relation) == IF relation.tag = None THEN <<>> ELSE relation.tag[1]

\* C13 (tag filter semantics): filter_relations keeps a relation exactly when,
\* for every key of the filter, the relation has a tag with that key whose
\* value is in the key's accepted set.  Stated of the filters with at least
\* one key.
C13_TagFilter ==
    (flt_out # None /\ DOMAIN filter # {}) =>
        \A r \in DOMAIN osm_relation :
            r \in Range(flt_out[1]) <=>
                \A key \in DOMAIN filter :
                    \E i \in 1..Len(TagsOf(osm_relation[r])) :
                        /\ TagsOf(osm_relation[r])[i].k = key
                        /\ TagsOf(osm_relation[r])[i].v \in filter[key]

(***************************************************************************)
(* Termination of the ring reconstructor.  The loop of the function runs   *)
(* its next iteration whenever there is one: weak fairness of its steps.   *)
(***************************************************************************)
SpecRingFair == InitRing /\ [][ExtractNext]_vars /\ WF_vars(ExtractNext)

RECURSIVE SumLen(_)
SumLen(W) ==
    IF W = {} THEN 0
    ELSE LET w == CHOOSE x \in W : TRUE IN Len(osm_way[w].nd) + SumLen(W \ {w})

RECURSIVE TotalLen(_)
TotalLen(ls) == IF ls = <<>> THEN 0 ELSE Len(ls[1].memeber_loop) + TotalLen(Tail(ls))

\* the rings of ls are chains of the ways of W, every way of W in one chain
RECURSIVE Decomposes(_, _)
Decomposes(ls, W) ==
    IF ls = <<>> THEN W = {}
    ELSE \E G \in SUBSET W :
            /\ G # {}
            /\ IsChainOf(ls[1].memeber_loop, G)
            /\ Decomposes(Tail(ls), W \ G)

\* C14 (ring reconstruction terminates and consumes each way once): for a
\* relation with a resolvable member way, every way with a node, each
\* iteration of the loop takes exactly one way out of the unconsumed set, the
\* ways consumed and the ways unconsumed are always the resolved ways split in
\* two, the call returns, and on return the unconsumed set is empty, the rings
\* are the node sequences of the distinct resolved ways, each once, forward
\* or reversed, and their total length is the sum of the ways' node counts.
C14_TerminatesConsumingOnce ==
    /\ [][(ring_pc = "loop" /\ ring_pc' = "loop") =>
             /\ ways_to_visit' \subseteq ways_to_visit
             /\ Cardinality(ways_to_visit') = Cardinality(ways_to_visit) - 1
             /\ TotalLen(loops') - TotalLen(loops)
                   = SumLen(ways_to_visit \ ways_to_visit')]_vars
    /\ [](ring_pc = "loop" =>
             /\ ways_to_visit \subseteq RingWays
             /\ Decomposes(loops, RingWays \ ways_to_visit))
    /\ [](ring_pc = "done" =>
             /\ ways_to_visit = {}
             /\ Decomposes(loops, RingWays)
             /\ TotalLen(loops) = SumLen(RingWays))
    /\ (ring_pc = "call" /\ ~ExtractPanics(osm_relation[ring_rel])) ~> (ring_pc = "done")

\* a call returned that consumed three ways, one appended reversed to the
\* seed's ring and one seeding a second ring
C14_Witness ==
    /\ ring_pc = "done"
    /\ Cardinality(RingWays) = 3
    /\ Len(loops) = 2
    /\ TotalLen(loops) = SumLen(RingWays)
    /\ \A w \in RingWays : Len(osm_way[w].nd) = 2
    /\ ~IsClosedWay(loops[1].way_id[1])
    /\ \E w \in RingWays \ {loops[1].way_id[1]} :
          /\ ~IsClosedWay(w)
          /\ Last(osm_way[w].nd) = Last(osm_way[loops[1].way_id[1]].nd)
          /\ Len(loops[1].memeber_loop) = 4

(***************************************************************************)
(* The way a ring comes from.                                              *)
(***************************************************************************)
\* the sets of resolved ways whose node sequences, chained, are ring l
StitchedFrom(l) == {G \in SUBSET RingWays : G # {} /\ IsChainOf(l.memeber_loop, G)}

\* C15 (originating way ID): a ring returned carries a way ID exactly when it
\* is one single way, and then that way's ID; a ring stitched from two or
\* more ways has way_id None.  Stated of the rings that can be read as a
\* chain of ways in one manner only.
C15_OriginatingWayId ==
    ring_pc = "done" =>
        \A i \in 1..Len(loops) :
            \A G \in StitchedFrom(loops[i]) :
                StitchedFrom(loops[i]) = {G} =>
                    IF Cardinality(G) = 1
                    THEN \E w \in G : loops[i].way_id = Some(w)
                    ELSE loops[i].way_id = None

(***************************************************************************)
(* The kinds of members.                                                   *)
(***************************************************************************)
\* the ways of the table that a member of kind way names
WayKindWays(relation) ==
    {relation.member[i].member_ref :
        i \in {j \in 1..Len(relation.member) : relation.member[j].member_type = "way"}}
    \cap DOMAIN osm_way

\* C16 (only way members count): a member whose kind is not way contributes
\* nothing to the ring reconstruction, even when its member_ref is the ID of
\* a way: the rings returned start from, and are the node sequences of, the
\* ways that members of kind way name, and no others.
C16_OnlyWayMembers ==
    ring_pc = "done" =>
        /\ \A i \in 1..Len(loops) :
              loops[i].way_id # None =>
                  loops[i].way_id[1] \in WayKindWays(osm_relation[ring_rel])
        /\ Decomposes(loops, WayKindWays(osm_relation[ring_rel]))

(***************************************************************************)
(* Standalone ways and ways of relations in the index.                     *)
(***************************************************************************)
\* the relations with a member whose member_ref is w
RelationsNaming(w) ==
    {r \in DOMAIN osm_relation :
        \E i \in 1..Len(osm_relation[r].member) : osm_relation[r].member[i].member_ref = w}

\* C17 (each way is indexed one way only): in the index built for a zoom, a
\* way whose ID is the member_ref of some relation member is in no tile's
\* way-bucket, and every relation naming it is in the relation-bucket of
\* every tile the way's nodes locate to; a way no relation member names is
\* in the way-bucket of every tile its nodes locate to; no way is both in a
\* way-bucket and named by a relation.
C17_IndexedOneWayOnly ==
    idx_pc = "done" =>
        /\ \A w \in DOMAIN osm_way :
              IF RelationsNaming(w) # {}
              THEN /\ TilesHolding(idx_out[1].ways_to_tile, w) = {}
                   /\ \A r \in RelationsNaming(w) :
                         TilesLocated({w}) \subseteq
                             TilesHolding(idx_out[1].relations_to_tile, r)
              ELSE TilesLocated({w}) \subseteq TilesHolding(idx_out[1].ways_to_tile, w)
        /\ \A w \in {b[3] : b \in idx_out[1].ways_to_tile} :
              \A r \in DOMAIN osm_relation : w \notin Range(ResolvedWays(osm_relation[r]))

\* an index was built over a way with nodes in two tiles that a relation
\* names, held in both tiles through the relation only, next to a standalone
\* way held in a way-bucket
C17_Witness ==
    /\ idx_pc = "done"
    /\ \E w \in DOMAIN osm_way :
          /\ RelationsNaming(w) # {}
          /\ Cardinality(TilesLocated({w})) = 2
          /\ TilesHolding(idx_out[1].ways_to_tile, w) = {}
          /\ \A r \in RelationsNaming(w) :
                TilesLocated({w}) \subseteq TilesHolding(idx_out[1].relations_to_tile, r)
    /\ \E w \in DOMAIN osm_way :
          /\ RelationsNaming(w) = {}
          /\ TilesHolding(idx_out[1].ways_to_tile, w) # {}

(***************************************************************************)
(* Two calls of the ring reconstructor on the same input.                  *)
(***************************************************************************)
SpecRingTwice == InitRing /\ [][ExtractNext \/ ExtractAgain]_vars

\* C18 (ring order is deterministic): two calls of extract_loops_to_render on
\* the same relation and the same way table return the same list of rings,
\* in the same order and with the same node sequences.
C18_RingOrderDeterministic ==
    (ring_pc = "done" /\ loops_first # None) => loops = loops_first[1]

(***************************************************************************)
(* The PNG files under ./cached.                                           *)
(***************************************************************************)
\* C19 (no partial tile is served): under any interleaving of requests,
\* every response with a PNG body is the complete rendered PNG of the tile
\* asked for, also when it was read from the file of ./cached.
C19_NoPartialTile ==
    \A p \in Tasks :
        (response[p] # None /\ response[p][1].kind = "png") =>
            /\ response[p][1].complete
            /\ response[p][1].image =
                  Some(TileImage(tile_cache[ZoomKey(req[p][1])],
                                 req[p][1], req[p][2], req[p][3]))

====
